---- MODULE Spec2Model ----
(***************************************************************************)
(* The recipe REST backend: per-user ownership of Recipe, Tag and          *)
(* Ingredient rows, nested get-or-create reconciliation of a recipe's      *)
(* tag/ingredient links, and the filtered list querysets.                  *)
(*                                                                         *)
(* Under Spec one action is one HTTP request handled from start to finish  *)
(* (requests are handled synchronously, one after the other).  The         *)
(* database runs in autocommit mode: the serializers open no transaction,  *)
(* so every ORM statement is persisted as soon as it is executed.          *)
(*                                                                         *)
(* Under ConcurrentSpec two server workers handle one recipe write each,   *)
(* statement by statement.  Under WaitSpec and FairWaitSpec the            *)
(* wait_for_db management command runs against a database that is not up   *)
(* yet.                                                                    *)
(***************************************************************************)
EXTENDS Integers, Sequences, FiniteSets, TLC

VARIABLES
    recipes,        \* rows of Recipe: [id, user, title, image, tags,
                    \* ingredients]
    tags,           \* rows of Tag: [id, user, name]
    ingredients,    \* rows of Ingredient: [id, user, name]
    next_id,        \* the auto-increment id sequence of each table
    last,           \* the last request handled and the response to it
    workers,        \* the recipe write each concurrent worker is executing
    command,        \* the run of the wait_for_db management command
    database_up     \* whether the default database accepts connections

vars == <<recipes, tags, ingredients, next_id, last, workers, command,
          database_up>>

(***************************************************************************)
(* Bounds of the model.                                                    *)
(***************************************************************************)
MaxRecipeId == 2        \* ids the recipe table may hand out
MaxAttributeIds == 2    \* ids the tag and ingredient tables may hand out,
                        \* taken together
MaxFailedChecks == 5    \* checks of wait_for_db that find the database down

Users == {"user", "other"}          \* the registered, authenticated users
AnonymousUser == "anonymous"        \* request.user of a request with no token
Senders == Users \cup {AnonymousUser}
Names == {"a", "b"}                 \* tag and ingredient names
Titles == {"t1", "t2"}              \* recipe titles (the scalar fields)

\* name order used by order_by('name')
NameRank(n) == IF n = "a" THEN 1 ELSE 2

(***************************************************************************)
(* Small helpers for payloads.  An optional key of a payload is <<>> when  *)
(* the key is absent and <<v>> when it is present with value v.            *)
(***************************************************************************)
Opt(S) == {<<>>} \cup {<<v>> : v \in S}
Present(o) == o # <<>>
Range(s) == {s[i] : i \in 1..Len(s)}

(***************************************************************************)
(* The ORM.  A queryset is a sequence of rows: a join may repeat a row,    *)
(* distinct() removes the repeats, order_by() sorts.                       *)
(***************************************************************************)
RECURSIVE all(_)
\* Model.objects.all(): the rows of a table, here in id order
all(rows) ==
    IF rows = {} THEN <<>>
    ELSE LET r == CHOOSE r \in rows : \A o \in rows : r.id <= o.id
         IN  <<r>> \o all(rows \ {r})

RECURSIVE Replicate(_, _)
Replicate(r, n) == IF n = 0 THEN <<>> ELSE <<r>> \o Replicate(r, n - 1)

RECURSIVE filter_id_in(_, _, _)
\* queryset.filter(<rel>__id__in=ids): an inner join with the link table of
\* rel, one result row per matching link
filter_id_in(q, rel, ids) ==
    IF q = <<>> THEN <<>>
    ELSE Replicate(Head(q), Cardinality(Head(q)[rel] \cap ids))
             \o filter_id_in(Tail(q), rel, ids)

\* a queryset that keeps the rows no recipe links
filter_recipe_isnull_false_missing(q, rel) == q

RECURSIVE filter_recipe_isnull_false(_, _)
\* queryset.filter(recipe__isnull=False) on Tag or Ingredient: a join with
\* the link table of rel, one result row per recipe linking the row
filter_recipe_isnull_false(q, rel) ==
    IF q = <<>> THEN <<>>
    ELSE Replicate(Head(q),
                   Cardinality({r \in recipes : Head(q).id \in r[rel]}))
             \o filter_recipe_isnull_false(Tail(q), rel)

\* a queryset that is not narrowed to the user's rows
filter_user_missing(q, user) == q

\* queryset.filter(user=user)
filter_user(q, user) == SelectSeq(q, LAMBDA r : r.user = user)

\* a queryset left with the repeats of its joins
distinct_missing(q) == q

RECURSIVE distinct(_)
\* queryset.distinct()
distinct(q) ==
    IF q = <<>> THEN <<>>
    ELSE <<Head(q)>> \o distinct(SelectSeq(Tail(q), LAMBDA r : r # Head(q)))

\* a queryset left in the order of its table
order_by_missing(q, key) == q

RECURSIVE order_by(_, _)
\* queryset.order_by(key): a stable sort, key a function from rows to Int
order_by(q, key) ==
    IF q = <<>> THEN <<>>
    ELSE LET rest == order_by(Tail(q), key)
             k == Cardinality({i \in 1..Len(rest) : key[rest[i]] < key[Head(q)]})
         IN  SubSeq(rest, 1, k) \o <<Head(q)>> \o SubSeq(rest, k + 1, Len(rest))

\* the sort keys of order_by('-id') and order_by('name')
KeyIdDesc(q) == [r \in Range(q) |-> 0 - r.id]
KeyName(q) == [r \in Range(q) |-> NameRank(r.name)]

\* the ids of the rows of a queryset, in its order (what a response lists)
Ids(q) == [i \in 1..Len(q) |-> q[i].id]

(***************************************************************************)
(* Requests and responses.  `last` is the request just handled together    *)
(* with the status and the data of its response.                           *)
(***************************************************************************)
\* the comma separated id lists a client sends as tags= / ingredients=,
\* already split at the commas; <<>> is an absent (or empty) parameter
QueryParams == {<<>>, <<"1">>, <<"2">>, <<"1", "2">>, <<"x">>}
\* the values a client sends as assigned_only=
AssignedOnlyParams == {<<>>, <<"0">>, <<"1">>}

\* int(str_id): the number a token denotes, -1 standing for ValueError
int(str_id) ==
    CASE str_id = "0" -> 0
      [] str_id = "1" -> 1
      [] str_id = "2" -> 2
      [] str_id = "3" -> 3
      [] OTHER -> -1

\* RecipeViewSet._params_to_ints: the ids of a comma separated list
_params_to_ints(qs) == [i \in 1..Len(qs) |-> int(qs[i])]

\* the keys of a JSON body, each absent or present, and of a query string
NoBody == [title |-> <<>>, user |-> <<>>, tags |-> <<>>, ingredients |-> <<>>,
           name |-> <<>>, image |-> <<>>]
NoQuery == [tags |-> <<>>, ingredients |-> <<>>, assigned_only |-> <<>>]

Request(op, user, id, body, query) ==
    [op |-> op, user |-> user, id |-> id, body |-> body, query |-> query,
     status |-> 0, data |-> <<>>]

Response(req, status, data) == [req EXCEPT !.status = status, !.data = data]

(***************************************************************************)
(* views.py: the querysets.                                                *)
(***************************************************************************)
\* RecipeViewSet.get_queryset, for the user and the query parameters of the
\* request; a parameter that is no number raises (request answered 500)
RecipeQuerysetRaises(q_tags, q_ingredients) ==
    \/ \E i \in 1..Len(q_tags) : int(q_tags[i]) < 0
    \/ \E i \in 1..Len(q_ingredients) : int(q_ingredients[i]) < 0

RecipeQueryset(user, q_tags, q_ingredients) ==
    LET queryset == all(recipes)
        by_tags ==
            IF q_tags # <<>>
            THEN filter_id_in(queryset, "tags", Range(_params_to_ints(q_tags)))
            ELSE queryset
        by_ingredients ==
            IF q_ingredients # <<>>
            THEN filter_id_in(by_tags, "ingredients",
                              Range(_params_to_ints(q_ingredients)))
            ELSE by_tags
        owned == filter_user(by_ingredients, user)
    IN  distinct(order_by(owned, KeyIdDesc(owned)))

\* BaseRecipeAttributeViewSet.get_queryset over the rows of TagViewSet
\* (rel = "tags") or IngredientViewSet (rel = "ingredients")
AttributeQueryset(rows, rel, user, assigned_only) ==
    LET flag == IF assigned_only = <<>> THEN 0 ELSE int(assigned_only[1])
        queryset == all(rows)
        assigned ==
            IF flag # 0 THEN filter_recipe_isnull_false(queryset, rel)
            ELSE queryset
        owned == filter_user(assigned, user)
    IN  distinct(order_by(owned, KeyName(owned)))

(***************************************************************************)
(* The database as one value, so that a handler can be written as the      *)
(* sequence of the ORM statements it executes.                             *)
(***************************************************************************)
Database ==
    [recipes |-> recipes, tags |-> tags, ingredients |-> ingredients,
     next_id |-> next_id]

\* the image field of a recipe that has no image
NoImage == ""

\* Recipe.objects.create(user=..., title=...): insert a row with no links
\* and no image
Recipe_objects_create(db, user, title) ==
    [db EXCEPT
        !.recipes = @ \cup {[id |-> db.next_id.recipes, user |-> user,
                             title |-> title, image |-> NoImage,
                             tags |-> {}, ingredients |-> {}]},
        !.next_id.recipes = @ + 1]

\* recipe.<rel>.add(obj): the link set is a set, adding twice links once
add(db, recipe_id, rel, obj_id) ==
    [db EXCEPT !.recipes =
        {IF r.id = recipe_id THEN [r EXCEPT ![rel] = @ \cup {obj_id}] ELSE r
            : r \in @}]

\* a clear() that leaves the links in place
clear_missing(db, recipe_id, rel) == db

\* recipe.<rel>.clear()
clear(db, recipe_id, rel) ==
    [db EXCEPT !.recipes =
        {IF r.id = recipe_id THEN [r EXCEPT ![rel] = {}] ELSE r : r \in @}]

\* a get_or_create that looks the name up among the rows of every user
get_or_create_any_user(db, rel, user, name) ==
    LET found == {t \in db[rel] : t.name = name}
    IN  IF Cardinality(found) > 1
        THEN [db |-> db, obj |-> 0, raised |-> TRUE]
        ELSE IF found # {}
        THEN [db |-> db, obj |-> (CHOOSE t \in found : TRUE).id,
              raised |-> FALSE]
        ELSE [db |-> [db EXCEPT
                        ![rel] = @ \cup {[id |-> db.next_id[rel],
                                          user |-> user, name |-> name]},
                        !.next_id[rel] = @ + 1],
              obj |-> db.next_id[rel], raised |-> FALSE]

\* <Model>.objects.get_or_create(user=user, name=name) on the table rel:
\* get() raises MultipleObjectsReturned when several rows match, and only
\* DoesNotExist leads to the insert
get_or_create(db, rel, user, name) ==
    LET found == {t \in db[rel] : t.user = user /\ t.name = name}
    IN  IF Cardinality(found) > 1
        THEN [db |-> db, obj |-> 0, raised |-> TRUE]
        ELSE IF found # {}
        THEN [db |-> db, obj |-> (CHOOSE t \in found : TRUE).id,
              raised |-> FALSE]
        ELSE [db |-> [db EXCEPT
                        ![rel] = @ \cup {[id |-> db.next_id[rel],
                                          user |-> user, name |-> name]},
                        !.next_id[rel] = @ + 1],
              obj |-> db.next_id[rel], raised |-> FALSE]

(***************************************************************************)
(* serializers.py.  A serializer method returns the database it leaves     *)
(* and whether it raised.                                                  *)
(***************************************************************************)
RECURSIVE _get_or_create_tags(_, _, _, _)
\* RecipeSerializer._get_or_create_tags
_get_or_create_tags(db, tag_list, recipe_id, authenticated_user) ==
    IF tag_list = <<>> THEN [db |-> db, raised |-> FALSE]
    ELSE LET got == get_or_create(db, "tags", authenticated_user,
                                  Head(tag_list))
         IN  IF got.raised THEN [db |-> got.db, raised |-> TRUE]
             ELSE _get_or_create_tags(
                      add(got.db, recipe_id, "tags", got.obj),
                      Tail(tag_list), recipe_id, authenticated_user)

RECURSIVE _get_or_create_ingredients(_, _, _, _)
\* RecipeDetailSerializer._get_or_create_ingredients
_get_or_create_ingredients(db, ingredient_list, recipe_id, authenticated_user) ==
    IF ingredient_list = <<>> THEN [db |-> db, raised |-> FALSE]
    ELSE LET got == get_or_create(db, "ingredients", authenticated_user,
                                  Head(ingredient_list))
         IN  IF got.raised THEN [db |-> got.db, raised |-> TRUE]
             ELSE _get_or_create_ingredients(
                      add(got.db, recipe_id, "ingredients", got.obj),
                      Tail(ingredient_list), recipe_id, authenticated_user)

\* the writable fields of RecipeDetailSerializer.Meta.fields; title stands
\* for the scalar fields title, time_minutes, price, link and description
RecipeFields == {"title", "tags", "ingredients"}

\* validated data that keeps the user key of a body
validated_data_with_user(body) ==
    [k \in {f \in RecipeFields \cup {"user"} : Present(body[f])} |-> body[k][1]]

\* serializer.validated_data for a body: only the declared fields that the
\* body carries; any other key of the body (such as user) is dropped
validated_data(body) ==
    [k \in {f \in RecipeFields : Present(body[f])} |-> body[k][1]]

\* validated_data.pop(key, default)
pop(data, key, default) == IF key \in DOMAIN data THEN data[key] ELSE default
without(data, key) == [k \in DOMAIN data \ {key} |-> data[k]]

\* RecipeSerializer.create, with validated_data holding the user that
\* perform_create passes to save()
RecipeSerializer_create(db, data, authenticated_user) ==
    LET tag_list == pop(data, "tags", <<>>)
        recipe_id == db.next_id.recipes
        created == Recipe_objects_create(db, data.user, data.title)
    IN  _get_or_create_tags(created, tag_list, recipe_id, authenticated_user)

\* RecipeDetailSerializer.create
RecipeDetailSerializer_create(db, data, authenticated_user) ==
    LET ingredient_list == pop(data, "ingredients", <<>>)
        recipe_id == db.next_id.recipes
        base == RecipeSerializer_create(db, without(data, "ingredients"),
                                        authenticated_user)
    IN  IF base.raised THEN base
        ELSE _get_or_create_ingredients(base.db, ingredient_list, recipe_id,
                                        authenticated_user)

\* the setattr loop and instance.save() of RecipeSerializer.update
save_attrs(db, instance_id, data) ==
    [db EXCEPT !.recipes =
        {IF r.id = instance_id
         THEN [f \in DOMAIN r |-> IF f \in DOMAIN data THEN data[f] ELSE r[f]]
         ELSE r : r \in @}]

\* RecipeSerializer.update
RecipeSerializer_update(db, instance_id, data, authenticated_user) ==
    LET linked ==
            IF "tags" \in DOMAIN data
            THEN _get_or_create_tags(clear(db, instance_id, "tags"),
                                     data.tags, instance_id,
                                     authenticated_user)
            ELSE [db |-> db, raised |-> FALSE]
    IN  IF linked.raised THEN linked
        ELSE [db |-> save_attrs(linked.db, instance_id, without(data, "tags")),
              raised |-> FALSE]

\* an update that takes an absent ingredients key for an empty list
RecipeDetailSerializer_update_default_list(db, instance_id, data, authenticated_user) ==
    LET linked == _get_or_create_ingredients(
                      clear(db, instance_id, "ingredients"),
                      pop(data, "ingredients", <<>>), instance_id,
                      authenticated_user)
    IN  IF linked.raised THEN linked
        ELSE RecipeSerializer_update(linked.db, instance_id,
                                     without(data, "ingredients"),
                                     authenticated_user)

\* RecipeDetailSerializer.update
RecipeDetailSerializer_update(db, instance_id, data, authenticated_user) ==
    LET linked ==
            IF "ingredients" \in DOMAIN data
            THEN _get_or_create_ingredients(
                     clear(db, instance_id, "ingredients"),
                     data.ingredients, instance_id, authenticated_user)
            ELSE [db |-> db, raised |-> FALSE]
    IN  IF linked.raised THEN linked
        ELSE RecipeSerializer_update(linked.db, instance_id,
                                     without(data, "ingredients"),
                                     authenticated_user)

(***************************************************************************)
(* views.py: the request handlers.                                         *)
(***************************************************************************)
\* the nested lists clients send, tags: [{name: ...}, ...] and
\* ingredients: [{name: ...}, ...], as the lists of their names
NestedLists == {<<>>, <<"a">>, <<"b">>, <<"a", "b">>, <<"a", "a">>}

\* bodies that carry the relation keys, each absent or a nested list
RelationBodies ==
    {[NoBody EXCEPT !.tags = t, !.ingredients = i] :
        t \in Opt(NestedLists), i \in Opt(NestedLists)}

\* bodies that carry the scalar keys: a title, and a user key naming
\* somebody else than the sender
ScalarBodies(sender) ==
    {[NoBody EXCEPT !.title = t, !.user = o, !.tags = l] :
        t \in Opt(Titles), o \in Opt(Users \ {sender}),
        l \in {<<>>, <<(<<"b">>)>>}}

\* the bodies a client with no token sends
AnonymousBodies ==
    {[NoBody EXCEPT !.title = <<"t1">>, !.tags = t] :
        t \in {<<>>, <<(<<"a">>)>>}}

\* the bodies of PATCH/PUT /recipes/{id}/ and of POST /recipes/ (where the
\* title is required)
UpdateBodies(sender) ==
    IF sender = AnonymousUser THEN AnonymousBodies
    ELSE RelationBodies \cup ScalarBodies(sender)
CreateBodies(sender) ==
    IF sender = AnonymousUser THEN AnonymousBodies
    ELSE {b \in {[r EXCEPT !.title = <<"t1">>] : r \in RelationBodies}
                \cup ScalarBodies(sender) : Present(b.title)}

\* the server handles one request at a time: the next one is taken when the
\* response to the last one has been sent
Idle == last.op = "none"

\* a request is taken only while the id sequences stay within the bounds
WithinBounds(db) ==
    /\ db.next_id.recipes <= MaxRecipeId + 1
    /\ (db.next_id.tags - 1) + (db.next_id.ingredients - 1) <= MaxAttributeIds

\* every statement is committed as it is executed: what a handler leaves is
\* what the database holds, also when the handler raised
Commit(db) ==
    /\ recipes' = db.recipes
    /\ tags' = db.tags
    /\ ingredients' = db.ingredients
    /\ next_id' = db.next_id
    /\ UNCHANGED <<workers, command, database_up>>

\* RecipeViewSet.perform_create: serializer.save(user=self.request.user);
\* what save() is given overrides the validated data
perform_create(body, request_user) ==
    [user |-> request_user] @@ validated_data(body)

\* a lookup by id among the recipes of every user
get_object_unscoped(user, id) == {r \in recipes : r.id = id}

\* GenericAPIView.get_object of RecipeViewSet: the row with this id of
\* get_queryset(), or none (answered 404)
get_object(user, id) ==
    {r \in Range(RecipeQueryset(user, <<>>, <<>>)) : r.id = id}

\* a permission class that lets every request through
AllowAny(user) == TRUE

\* permission_classes = [IsAuthenticated], of a request that
\* TokenAuthentication has given its user: checked before the handler runs
IsAuthenticated(user) == user # AnonymousUser

\* no request in hand
NoRequest == Request("none", "user", 0, NoBody, NoQuery)

\* a response that leaves the database as it is
Answer(response) ==
    /\ last' = response
    /\ UNCHANGED <<recipes, tags, ingredients, next_id>>
    /\ UNCHANGED <<workers, command, database_up>>

\* the server workers of the concurrent specification, idle under Spec
Workers == {1, 2}
NoWorker == [pc |-> "idle", op |-> "none", user |-> "user", recipe_id |-> 0,
             tag_list |-> <<>>, rest |-> <<>>, obj |-> 0]

\* the wait_for_db command when it is not running
NoCommand == [pc |-> "off", db_up |-> FALSE, calls |-> <<>>, sleeps |-> 0,
              stdout |-> <<>>, result |-> <<>>]

\* POST /recipes/
RecipeCreate ==
    /\ Idle
    /\ \E u \in Senders :
       \E body \in CreateBodies(u) :
        LET req == Request("recipe_create", u, next_id.recipes, body, NoQuery)
            out == RecipeDetailSerializer_create(
                       Database, perform_create(body, u), u)
        IN  IF ~IsAuthenticated(u)
            THEN Answer(Response(req, 401, <<>>))
            ELSE /\ WithinBounds(out.db)
                 /\ Commit(out.db)
                 /\ last' = Response(req, IF out.raised THEN 500 ELSE 201,
                                     <<req.id>>)

\* PATCH or PUT /recipes/{id}/
RecipeUpdate ==
    /\ Idle
    /\ \E u \in Senders, id \in 1..MaxRecipeId :
       \E body \in UpdateBodies(u) :
        LET req == Request("recipe_update", u, id, body, NoQuery)
            out == RecipeDetailSerializer_update(
                       Database, id, validated_data(body), u)
        IN  IF ~IsAuthenticated(u)
            THEN Answer(Response(req, 401, <<>>))
            ELSE IF get_object(u, id) = {}
            THEN Answer(Response(req, 404, <<>>))
            ELSE /\ WithinBounds(out.db)
                 /\ Commit(out.db)
                 /\ last' = Response(req, IF out.raised THEN 500 ELSE 200,
                                     <<id>>)

\* DELETE /recipes/{id}/
RecipeDestroy ==
    /\ Idle
    /\ \E u \in Senders, id \in 1..MaxRecipeId :
        LET req == Request("recipe_destroy", u, id, NoBody, NoQuery)
        IN  IF ~IsAuthenticated(u)
            THEN Answer(Response(req, 401, <<>>))
            ELSE IF get_object(u, id) = {}
            THEN Answer(Response(req, 404, <<>>))
            ELSE /\ recipes' = recipes \ get_object(u, id)
                 /\ last' = Response(req, 204, <<>>)
                 /\ UNCHANGED <<tags, ingredients, next_id>>
                 /\ UNCHANGED <<workers, command, database_up>>

\* GET /recipes/{id}/
RecipeRetrieve ==
    /\ Idle
    /\ \E u \in Senders, id \in 1..MaxRecipeId :
        LET req == Request("recipe_retrieve", u, id, NoBody, NoQuery)
        IN  IF ~IsAuthenticated(u)
            THEN Answer(Response(req, 401, <<>>))
            ELSE IF get_object(u, id) = {}
            THEN Answer(Response(req, 404, <<>>))
            ELSE Answer(Response(req, 200, <<id>>))

\* GET /recipes/?tags=...&ingredients=...
RecipeList ==
    /\ Idle
    /\ \E u \in Senders, q_tags \in QueryParams, q_ingredients \in QueryParams :
        LET query == [NoQuery EXCEPT !.tags = q_tags,
                                     !.ingredients = q_ingredients]
            req == Request("recipe_list", u, 0, NoBody, query)
        IN  IF ~IsAuthenticated(u)
            THEN Answer(Response(req, 401, <<>>))
            ELSE IF RecipeQuerysetRaises(q_tags, q_ingredients)
            THEN Answer(Response(req, 500, <<>>))
            ELSE Answer(Response(req, 200,
                     Ids(RecipeQueryset(u, q_tags, q_ingredients))))

\* a lookup by id among the tags or ingredients of every user
get_attribute_unscoped(rows, rel, user, id) == {t \in rows : t.id = id}

\* GenericAPIView.get_object of TagViewSet / IngredientViewSet
get_attribute(rows, rel, user, id) ==
    {t \in Range(AttributeQueryset(rows, rel, user, <<>>)) : t.id = id}

\* Tag / Ingredient row.delete(): the row goes, and with it its links
delete_attribute(db, rel, id) ==
    [db EXCEPT
        ![rel] = {t \in @ : t.id # id},
        !.recipes = {[r EXCEPT ![rel] = @ \ {id}] : r \in @}]

\* ModelSerializer.update of TagSerializer / IngredientSerializer: name is
\* the one writable field
update_attribute(db, rel, id, name) ==
    [db EXCEPT ![rel] =
        {IF t.id = id THEN [t EXCEPT !.name = name] ELSE t : t \in @}]

\* GET /tags/?assigned_only=... and GET /ingredients/?assigned_only=...
AttributeList(rel) ==
    /\ Idle
    /\ \E u \in Senders, assigned_only \in AssignedOnlyParams :
        LET query == [NoQuery EXCEPT !.assigned_only = assigned_only]
            req == Request(rel \o "_list", u, 0, NoBody, query)
        IN  IF ~IsAuthenticated(u)
            THEN Answer(Response(req, 401, <<>>))
            ELSE Answer(Response(req, 200,
                    Ids(AttributeQueryset(Database[rel], rel, u,
                                          assigned_only))))

\* PATCH or PUT /tags/{id}/ and /ingredients/{id}/
AttributeUpdate(rel) ==
    /\ Idle
    /\ \E u \in Senders, id \in 1..MaxAttributeIds, name \in Names :
        LET body == [NoBody EXCEPT !.name = <<name>>]
            req == Request(rel \o "_update", u, id, body, NoQuery)
        IN  IF ~IsAuthenticated(u)
            THEN Answer(Response(req, 401, <<>>))
            ELSE IF get_attribute(Database[rel], rel, u, id) = {}
            THEN Answer(Response(req, 404, <<>>))
            ELSE /\ Commit(update_attribute(Database, rel, id, name))
                 /\ last' = Response(req, 200, <<id>>)

\* DELETE /tags/{id}/ and /ingredients/{id}/
AttributeDestroy(rel) ==
    /\ Idle
    /\ \E u \in Senders, id \in 1..MaxAttributeIds :
        LET req == Request(rel \o "_destroy", u, id, NoBody, NoQuery)
        IN  IF ~IsAuthenticated(u)
            THEN Answer(Response(req, 401, <<>>))
            ELSE IF get_attribute(Database[rel], rel, u, id) = {}
            THEN Answer(Response(req, 404, <<>>))
            ELSE /\ Commit(delete_attribute(Database, rel, id))
                 /\ last' = Response(req, 204, <<>>)

TagList == AttributeList("tags")
TagUpdate == AttributeUpdate("tags")
TagDestroy == AttributeDestroy("tags")
IngredientList == AttributeList("ingredients")
IngredientUpdate == AttributeUpdate("ingredients")
IngredientDestroy == AttributeDestroy("ingredients")

\* the response is sent; the server keeps nothing of the request
Respond ==
    /\ ~Idle
    /\ Answer(NoRequest)

Init ==
    /\ recipes = {}
    /\ tags = {}
    /\ ingredients = {}
    /\ next_id = [recipes |-> 1, tags |-> 1, ingredients |-> 1]
    /\ last = NoRequest
    /\ workers = [w \in Workers |-> NoWorker]
    /\ command = NoCommand
    /\ database_up = TRUE

Next ==
    \/ RecipeCreate
    \/ RecipeUpdate
    \/ RecipeDestroy
    \/ RecipeRetrieve
    \/ RecipeList
    \/ TagList
    \/ TagUpdate
    \/ TagDestroy
    \/ IngredientList
    \/ IngredientUpdate
    \/ IngredientDestroy
    \/ Respond

Spec == Init /\ [][Next]_vars

(***************************************************************************)
(* The image upload, POST /recipes/{id}/upload-image/, checked under       *)
(* UploadSpec: uploads of the two users and of a client with no token,     *)
(* sent to a database that holds recipes of both users.                    *)
(***************************************************************************)
\* what a client sends under the image key: a JPEG file, or a string
ImageFiles == {"example.jpg"}
ImagePayloads == Opt(ImageFiles \cup {"not-an-image"})

\* the values uuid.uuid4() may return
Uuids == {"uuid-1", "uuid-2"}

\* core.models.recipe_image_file_path: the path a file is stored under
recipe_image_file_path(uuid, filename) ==
    "uploads/recipe/" \o uuid \o ".jpg"

\* a validation that takes whatever the image key holds
is_valid_any(data) == Present(data.image)

\* RecipeImageSerializer.is_valid: the image is required and has to be an
\* image file
is_valid(data) == Present(data.image) /\ data.image[1] \in ImageFiles

\* RecipeImageSerializer.save: the file is stored and the image field set
save_image(db, instance_id, path) ==
    [db EXCEPT !.recipes =
        {IF r.id = instance_id THEN [r EXCEPT !.image = path] ELSE r
            : r \in @}]

\* RecipeViewSet.upload_image
upload_image ==
    /\ Idle
    /\ \E u \in Senders, id \in 1..MaxRecipeId, image \in ImagePayloads,
          uuid \in Uuids :
        LET body == [NoBody EXCEPT !.image = image]
            req == Request("upload_image", u, id, body, NoQuery)
        IN  IF ~IsAuthenticated(u)
            THEN Answer(Response(req, 401, <<>>))
            ELSE IF get_object(u, id) = {}
            THEN Answer(Response(req, 404, <<>>))
            ELSE IF is_valid(body)
            THEN /\ Commit(save_image(Database, id,
                        recipe_image_file_path(uuid, image[1])))
                 /\ last' = Response(req, 200, <<id>>)
            ELSE Answer(Response(req, 400, <<>>))

\* the recipes the uploads are sent to: recipe 1 of one user and recipe 2
\* of the other, each linking a tag of its owner, each there or deleted
UploadRecipes ==
    {[id |-> 1, user |-> "user", title |-> "t1", image |-> NoImage,
      tags |-> {1}, ingredients |-> {}],
     [id |-> 2, user |-> "other", title |-> "t2", image |-> NoImage,
      tags |-> {2}, ingredients |-> {}]}

UploadInit ==
    /\ recipes \in SUBSET UploadRecipes
    /\ tags = {[id |-> 1, user |-> "user", name |-> "a"],
               [id |-> 2, user |-> "other", name |-> "a"]}
    /\ ingredients = {}
    /\ next_id = [recipes |-> 3, tags |-> 3, ingredients |-> 1]
    /\ last = NoRequest
    /\ workers = [w \in Workers |-> NoWorker]
    /\ command = NoCommand
    /\ database_up = TRUE

UploadNext ==
    \/ upload_image
    \/ Respond

UploadSpec == UploadInit /\ [][UploadNext]_vars

(***************************************************************************)
(* Every write operation of the API, the image upload included, handled    *)
(* one request after the other, from a database in which one user already  *)
(* owns a recipe and the tag or ingredient it links.                       *)
(***************************************************************************)
\* the database the writes start from: "other" has created recipe 1 with
\* the tag "a"; one more recipe and one more tag or ingredient fit the
\* bounds
WriteInit ==
    /\ recipes = {[id |-> 1, user |-> "other", title |-> "t1",
                   image |-> NoImage, tags |-> {1}, ingredients |-> {}]}
    /\ tags = {[id |-> 1, user |-> "other", name |-> "a"]}
    /\ ingredients = {}
    /\ next_id = [recipes |-> 2, tags |-> 2, ingredients |-> 1]
    /\ last = NoRequest
    /\ workers = [w \in Workers |-> NoWorker]
    /\ command = NoCommand
    /\ database_up = TRUE

WriteNext ==
    \/ RecipeCreate
    \/ RecipeUpdate
    \/ RecipeDestroy
    \/ upload_image
    \/ TagUpdate
    \/ TagDestroy
    \/ IngredientUpdate
    \/ IngredientDestroy
    \/ Respond

WriteSpec == WriteInit /\ [][WriteNext]_vars

(***************************************************************************)
(* Concurrent recipe writes.  Two workers of the server handle one request *)
(* each, for the same user; a step is one ORM statement.  get_or_create    *)
(* is the framework's: a get(), and only if no row matched a create().     *)
(***************************************************************************)
\* the tag lists the two concurrent requests carry
WorkerLists == {<<"a">>, <<"b">>, <<"a", "b">>, <<"b", "a">>}

\* the requests a worker may be handling: POST /recipes/ with a tag list,
\* or PATCH /recipes/1/ with a tag list
WorkerRequests ==
    {[NoWorker EXCEPT !.pc = "start", !.op = op, !.tag_list = l, !.rest = l,
                      !.recipe_id = IF op = "update" THEN 1 ELSE 0] :
        op \in {"create", "update"}, l \in WorkerLists}

\* the get() of get_or_create: the rows matching user and name
get(db, rel, user, name) == {t \in db[rel] : t.user = user /\ t.name = name}

\* the create() of get_or_create: insert a row
create(db, rel, user, name) ==
    [db EXCEPT ![rel] = @ \cup {[id |-> db.next_id[rel], user |-> user,
                                 name |-> name]},
               !.next_id[rel] = @ + 1]

\* where a worker goes on when names are left to resolve, or none
Resolve(rest, op) ==
    IF rest # <<>> THEN "get" ELSE IF op = "update" THEN "save" ELSE "done"

\* a step of worker w that leaves the database db and the worker as next
WorkerStep(w, db, next) ==
    /\ recipes' = db.recipes
    /\ tags' = db.tags
    /\ ingredients' = db.ingredients
    /\ next_id' = db.next_id
    /\ workers' = [workers EXCEPT ![w] = next]
    /\ UNCHANGED <<last, command, database_up>>

\* RecipeSerializer.create: Recipe.objects.create(**validated_data)
WorkerCreateRecipe(w) ==
    LET me == workers[w]
    IN  /\ me.pc = "start"
        /\ me.op = "create"
        /\ WorkerStep(w, Recipe_objects_create(Database, me.user, "t1"),
                      [me EXCEPT !.recipe_id = next_id.recipes,
                                 !.pc = Resolve(me.rest, me.op)])

\* RecipeSerializer.update: instance.tags.clear()
WorkerClear(w) ==
    LET me == workers[w]
    IN  /\ me.pc = "start"
        /\ me.op = "update"
        /\ WorkerStep(w, clear(Database, me.recipe_id, "tags"),
                      [me EXCEPT !.pc = Resolve(me.rest, me.op)])

\* _get_or_create_tags: the get() of Tag.objects.get_or_create
WorkerGet(w) ==
    LET me == workers[w]
        found == get(Database, "tags", me.user, Head(me.rest))
    IN  /\ me.pc = "get"
        /\ WorkerStep(w, Database,
              IF Cardinality(found) > 1 THEN [me EXCEPT !.pc = "raised"]
              ELSE IF found # {}
              THEN [me EXCEPT !.pc = "add",
                              !.obj = (CHOOSE t \in found : TRUE).id]
              ELSE [me EXCEPT !.pc = "create"])

\* _get_or_create_tags: the create() of Tag.objects.get_or_create, taken
\* when the get() found no row
WorkerInsert(w) ==
    LET me == workers[w]
    IN  /\ me.pc = "create"
        /\ WorkerStep(w, create(Database, "tags", me.user, Head(me.rest)),
                      [me EXCEPT !.pc = "add", !.obj = next_id.tags])

\* _get_or_create_tags: recipe.tags.add(tag_obj)
WorkerAdd(w) ==
    LET me == workers[w]
    IN  /\ me.pc = "add"
        /\ WorkerStep(w, add(Database, me.recipe_id, "tags", me.obj),
                      [me EXCEPT !.rest = Tail(me.rest),
                                 !.pc = Resolve(Tail(me.rest), me.op)])

\* RecipeSerializer.update: the setattr loop over the remaining validated
\* data (none here) and instance.save()
WorkerSave(w) ==
    LET me == workers[w]
    IN  /\ me.pc = "save"
        /\ WorkerStep(w, save_attrs(Database, me.recipe_id, <<>>),
                      [me EXCEPT !.pc = "done"])

\* the database the two requests arrive at: the user's recipe 1, linking
\* the user's tag 1 named "a", or with no tag after tag 1 was deleted
ConcurrentInit ==
    /\ \E linked \in BOOLEAN :
        /\ recipes = {[id |-> 1, user |-> "user", title |-> "t1",
                       image |-> NoImage,
                       tags |-> IF linked THEN {1} ELSE {},
                       ingredients |-> {}]}
        /\ tags = IF linked THEN {[id |-> 1, user |-> "user", name |-> "a"]}
                  ELSE {}
        /\ next_id = [recipes |-> 2, tags |-> 2, ingredients |-> 1]
    /\ ingredients = {}
    /\ workers \in [Workers -> WorkerRequests]
    /\ last = NoRequest
    /\ command = NoCommand
    /\ database_up = TRUE

ConcurrentNext ==
    \E w \in Workers :
        \/ WorkerCreateRecipe(w)
        \/ WorkerClear(w)
        \/ WorkerGet(w)
        \/ WorkerInsert(w)
        \/ WorkerAdd(w)
        \/ WorkerSave(w)

ConcurrentSpec == ConcurrentInit /\ [][ConcurrentNext]_vars

(***************************************************************************)
(* core/management/commands/wait_for_db.py.  `command` holds the position  *)
(* of Command.handle, the local db_up, the outcome of every call of        *)
(* self.check so far, the number of time.sleep(1) calls that returned,     *)
(* what was written to stdout and the value returned.                      *)
(***************************************************************************)
\* the two exceptions a check raises while the database is unavailable
OperationalErrors ==
    {"psycopg2.OperationalError", "django.db.utils.OperationalError"}

\* self.check(databases=['default']): what a call may do.  It returns once
\* the database is up, and raises an operational error while it is down;
\* any call may raise another error (a misconfigured database setting).
check(up, calls) ==
    IF up THEN {"ok", "ImproperlyConfigured"}
    ELSE IF Len(calls) < MaxFailedChecks
    THEN OperationalErrors \cup {"ImproperlyConfigured"}
    ELSE {}

\* an except clause that catches whatever the check raises
retryable_any(outcome) == outcome # "ok"

\* the except clause: the exceptions that are caught
retryable(outcome) == outcome \in OperationalErrors

\* a loop that gives up after three attempts
while_not_db_up_bounded(c) == ~c.db_up /\ Len(c.calls) < 3

\* while not db_up
while_not_db_up(c) == ~c.db_up

\* an except branch that does not sleep
except_OperationalError_no_sleep(c) ==
    [c EXCEPT !.stdout = Append(@, "Waiting..."), !.pc = "check"]

\* the except branch up to the call of time.sleep(1)
except_OperationalError(c) ==
    [c EXCEPT !.stdout = Append(@, "Waiting..."), !.pc = "sleep"]

\* the loop condition and, when the loop is left, the end of handle
loop(c) ==
    IF while_not_db_up(c) THEN [c EXCEPT !.pc = "check"]
    ELSE [c EXCEPT !.stdout = Append(@, "Database is ready"),
                   !.result = <<0>>, !.pc = "done"]

\* a step of the command, or of the database it waits for
WaitStep(c, up) ==
    /\ command' = c
    /\ database_up' = up
    /\ UNCHANGED <<recipes, tags, ingredients, next_id, last, workers>>

\* handle up to the first evaluation of the loop condition
WaitStart ==
    /\ command.pc = "start"
    /\ WaitStep(loop([command EXCEPT
                        !.stdout = Append(@, "Waiting for database..."),
                        !.db_up = FALSE]),
                database_up)

\* one call of self.check and what follows it without blocking: db_up set
\* and the loop left, the except branch entered, or the exception leaving
\* handle
WaitCheck ==
    /\ command.pc = "check"
    /\ \E outcome \in check(database_up, command.calls) :
        LET called == [command EXCEPT !.calls = Append(@, outcome)]
        IN  WaitStep(
                IF outcome = "ok" THEN loop([called EXCEPT !.db_up = TRUE])
                ELSE IF retryable(outcome) THEN except_OperationalError(called)
                ELSE [called EXCEPT !.pc = "raised"],
                database_up)

\* time.sleep(1) returns and the loop condition is evaluated again
WaitSleep ==
    /\ command.pc = "sleep"
    /\ WaitStep(loop([command EXCEPT !.sleeps = @ + 1]), database_up)

\* the database server starts to accept connections
DatabaseStarts ==
    /\ ~database_up
    /\ WaitStep(command, TRUE)

WaitInit ==
    /\ recipes = {}
    /\ tags = {}
    /\ ingredients = {}
    /\ next_id = [recipes |-> 1, tags |-> 1, ingredients |-> 1]
    /\ last = NoRequest
    /\ workers = [w \in Workers |-> NoWorker]
    /\ command = [NoCommand EXCEPT !.pc = "start"]
    /\ database_up \in BOOLEAN

WaitNext ==
    \/ WaitStart
    \/ WaitCheck
    \/ WaitSleep
    \/ DatabaseStarts

WaitSpec == WaitInit /\ [][WaitNext]_vars

\* the command is scheduled as long as it has a step to take, and the
\* database server comes up at some time
FairWaitSpec ==
    /\ WaitInit
    /\ [][WaitNext]_vars
    /\ WF_vars(WaitStart)
    /\ WF_vars(WaitCheck)
    /\ WF_vars(WaitSleep)
    /\ WF_vars(DatabaseStarts)

(***************************************************************************)
(* Properties.                                                             *)
(***************************************************************************)
\* a request of an authenticated user is being answered in this step
Handles(op) ==
    /\ last.op = "none"
    /\ last'.op = op
    /\ last'.user \in Users

\* the rows of the table a list operation lists
Listed(op) ==
    CASE op = "recipe_list" -> recipes
      [] op = "tags_list" -> tags
      [] op = "ingredients_list" -> ingredients
      [] OTHER -> {}

ListOps == {"recipe_list", "tags_list", "ingredients_list"}

\* the set of ids a query parameter names
ParamIds(qs) == {int(qs[i]) : i \in 1..Len(qs)}

\* C1: a list of recipes, tags or ingredients answered to a user holds only
\* rows owned by that user, whatever filters the request carries.
C1_ListOnlyOwnRows ==
    last.op \in ListOps =>
        \A i \in 1..Len(last.data) :
            \E row \in Listed(last.op) :
                row.id = last.data[i] /\ row.user = last.user

\* C1 witness: a filtered recipe list is answered with a recipe of the
\* caller while a recipe of another user matches the same filter.
C1_Witness ==
    /\ last.op = "recipe_list"
    /\ last.status = 200
    /\ last.query.tags # <<>>
    /\ last.data # <<>>
    /\ \E r \in recipes :
        r.user # last.user /\ r.tags \cap ParamIds(last.query.tags) # {}

\* C2: every tag and every ingredient linked to a recipe is owned by the
\* owner of that recipe.
C2_LinksOwnedByRecipeOwner ==
    \A r \in recipes :
        /\ \A id \in r.tags :
            \E t \in tags : t.id = id /\ t.user = r.user
        /\ \A id \in r.ingredients :
            \E t \in ingredients : t.id = id /\ t.user = r.user

\* C2 witness: a recipe links a tag of its owner while another user owns a
\* tag of the same name.
C2_Witness ==
    \E r \in recipes, t \in tags, o \in tags :
        /\ t.id \in r.tags
        /\ o.user # r.user
        /\ o.name = t.name

RecipeDetailOps == {"recipe_retrieve", "recipe_update", "recipe_destroy"}

\* C3: a retrieve, update or delete of a recipe by a user who does not own
\* it is answered 404 and leaves the recipe row as it is.
C3_OtherUsersRecipeNotFound ==
    [][\A r \in recipes :
        (/\ \E op \in RecipeDetailOps : Handles(op)
         /\ last'.id = r.id
         /\ last'.user # r.user)
        => (last'.status = 404 /\ r \in recipes')]_vars

\* C3 witness: an update with a new tag list, sent for another user's
\* linked recipe, has been answered.
C3_Witness ==
    /\ last.op = "recipe_update"
    /\ last.body.tags = <<(<<>>)>>
    /\ \E r \in recipes :
        r.id = last.id /\ r.user # last.user /\ r.tags # {}

\* the nested list a body carries under a key, none when the key is absent
NestedList(key) == IF Present(key) THEN key[1] ELSE <<>>

\* the rows of a table that a user owns under a name
Named(rows, user, name) == {t \in rows : t.user = user /\ t.name = name}

\* the recipe rows with an id
WithId(rows, id) == {r \in rows : r.id = id}

\* a name of a nested list is resolved for the recipe: an existing row of
\* the user is reused, a missing one is created once, and it is linked
Resolved(rel, before, after, recipes_after, user, name, recipe_id) ==
    /\ Named(before, user, name) # {}
        => Named(after, user, name) = Named(before, user, name)
    /\ Named(before, user, name) = {}
        => Cardinality(Named(after, user, name)) = 1
    /\ \E r \in WithId(recipes_after, recipe_id) :
        \E t \in Named(after, user, name) : t.id \in r[rel]

\* C4 as claimed: a recipe create resolves every name of its tag list and
\* of its ingredient list: reusing the creator's row of that name if there
\* is one, creating exactly one row otherwise, and linking it to the new
\* recipe.
C4_CreateReusesOrCreates ==
    [][Handles("recipe_create") =>
        /\ \A n \in Range(NestedList(last'.body.tags)) :
            Resolved("tags", tags, tags', recipes', last'.user, n, last'.id)
        /\ \A n \in Range(NestedList(last'.body.ingredients)) :
            Resolved("ingredients", ingredients, ingredients', recipes',
                     last'.user, n, last'.id)]_vars

\* no user owns two rows of a table under one name
UniqueNames(rows) ==
    \A t \in rows, o \in rows :
        (t.user = o.user /\ t.name = o.name) => t.id = o.id

\* C4 where the creator's names are unique when the request arrives
C4_UniqueNamesCreate ==
    [][(Handles("recipe_create") /\ UniqueNames(tags)
            /\ UniqueNames(ingredients)) =>
        /\ \A n \in Range(NestedList(last'.body.tags)) :
            Resolved("tags", tags, tags', recipes', last'.user, n, last'.id)
        /\ \A n \in Range(NestedList(last'.body.ingredients)) :
            Resolved("ingredients", ingredients, ingredients', recipes',
                     last'.user, n, last'.id)]_vars

\* the ids of a user's rows of a table whose names appear in a nested list
IdsNamed(rows, user, list) ==
    {t.id : t \in {o \in rows : o.user = user /\ o.name \in Range(list)}}

\* an update is being answered for a recipe that its sender owns
HandlesOwnUpdate(r) ==
    /\ Handles("recipe_update")
    /\ r \in recipes
    /\ r.id = last'.id
    /\ r.user = last'.user

\* the links of the updated recipe are those a key of the body names
Replaced(rel, key, rows_after, recipes_after, r) ==
    Present(key) =>
        \E n \in WithId(recipes_after, r.id) :
            n[rel] = IdsNamed(rows_after, r.user, key[1])

\* C5 as claimed: after an update whose body carries the tags key, the
\* recipe links exactly its owner's tags named in the list; likewise for the
\* ingredients key.
C5_UpdateReplacesLinks ==
    [][\A r \in recipes :
        HandlesOwnUpdate(r) =>
            /\ Replaced("tags", last'.body.tags, tags', recipes', r)
            /\ Replaced("ingredients", last'.body.ingredients, ingredients',
                        recipes', r)]_vars

\* C5 where the owner's names are unique when the request arrives
C5_UniqueNamesUpdate ==
    [][\A r \in recipes :
        (HandlesOwnUpdate(r) /\ UniqueNames(tags) /\ UniqueNames(ingredients))
        =>  /\ Replaced("tags", last'.body.tags, tags', recipes', r)
            /\ Replaced("ingredients", last'.body.ingredients, ingredients',
                        recipes', r)]_vars

\* the links of a recipe under a relation are what they were
Kept(rel, recipes_after, r) ==
    \E n \in WithId(recipes_after, r.id) : n[rel] = r[rel]

\* C6: a recipe update leaves the links of every relation whose key the
\* body does not carry as they were.
C6_AbsentKeysKeepLinks ==
    [][\A r \in recipes :
        (Handles("recipe_update") /\ r.id = last'.id) =>
            /\ ~Present(last'.body.tags) => Kept("tags", recipes', r)
            /\ ~Present(last'.body.ingredients)
                => Kept("ingredients", recipes', r)]_vars

\* C6 witness: an update carrying tags: [] and no ingredients key has been
\* answered for a recipe that has ingredients and no tag any more.
C6_Witness ==
    /\ last.op = "recipe_update"
    /\ last.status = 200
    /\ last.body.tags = <<(<<>>)>>
    /\ ~Present(last.body.ingredients)
    /\ \E r \in WithId(recipes, last.id) :
        r.ingredients # {} /\ r.tags = {}

\* C7: a recipe is created with its sender as owner, and no request ever
\* changes the owner of a recipe.
C7_OwnerFixedAtCreation ==
    [][/\ \A r \in recipes : \A n \in WithId(recipes', r.id) : n.user = r.user
       /\ Handles("recipe_create") =>
            \A n \in WithId(recipes', last'.id) : n.user = last'.user]_vars

\* C7 witness: an update whose body names another user under the user key
\* has been applied to a recipe.
C7_Witness ==
    /\ last.op = "recipe_update"
    /\ last.status = 200
    /\ Present(last.body.user)
    /\ \E r \in WithId(recipes, last.id) :
        r.user = last.user /\ r.user # last.body.user[1]

\* no id is listed twice
NoRepeats(data) ==
    \A i \in 1..Len(data), j \in 1..Len(data) : data[i] = data[j] => i = j

\* the ids of a user's recipes that link at least one of the ids
LinkingAny(rel, user, ids) ==
    {r.id : r \in {o \in recipes : o.user = user /\ o[rel] \cap ids # {}}}

\* C8: a recipe list filtered by tags=S lists exactly the caller's recipes
\* that link at least one tag of S, each once; likewise for ingredients=S.
C8_FilterListsEachMatchOnce ==
    (last.op = "recipe_list" /\ last.status = 200) =>
        /\ (last.query.tags # <<>> /\ last.query.ingredients = <<>>) =>
            /\ Range(last.data) =
                LinkingAny("tags", last.user, ParamIds(last.query.tags))
            /\ NoRepeats(last.data)
        /\ (last.query.ingredients # <<>> /\ last.query.tags = <<>>) =>
            /\ Range(last.data) =
                LinkingAny("ingredients", last.user,
                           ParamIds(last.query.ingredients))
            /\ NoRepeats(last.data)

\* C8 witness: a list filtered by two tag ids has been answered with a
\* recipe that links both, while another recipe of the caller links none.
C8_Witness ==
    /\ last.op = "recipe_list"
    /\ last.query.tags = <<"1", "2">>
    /\ last.query.ingredients = <<>>
    /\ \E r \in recipes, o \in recipes :
        /\ r.user = last.user /\ r.tags = {1, 2}
        /\ o.user = last.user /\ o.tags = {}
        /\ last.data = <<r.id>>

\* the ids of a user's rows of a table that some recipe links
Assigned(rows, rel, user) ==
    {t.id : t \in {o \in rows : o.user = user
                                /\ \E r \in recipes : o.id \in r[rel]}}

\* the ids of a user's rows of a table
Owned(rows, user) == {t.id : t \in {o \in rows : o.user = user}}

\* the relation a tag or ingredient list operation is about
RelOf(op) == IF op = "tags_list" THEN "tags" ELSE "ingredients"

\* C9: a tag or ingredient list with assigned_only=1 lists exactly the
\* caller's rows that some recipe links, each once; with assigned_only
\* absent or 0 it lists all of the caller's rows.
C9_AssignedOnlyListsLinkedRowsOnce ==
    last.op \in {"tags_list", "ingredients_list"} =>
        /\ NoRepeats(last.data)
        /\ last.query.assigned_only = <<"1">> =>
            Range(last.data) =
                Assigned(Listed(last.op), RelOf(last.op), last.user)
        /\ last.query.assigned_only \in {<<>>, <<"0">>} =>
            Range(last.data) = Owned(Listed(last.op), last.user)

\* C9 witness: a tag list with assigned_only=1 has been answered with the
\* one tag that two recipes link, while the caller owns an unlinked tag too.
C9_Witness ==
    /\ last.op = "tags_list"
    /\ last.query.assigned_only = <<"1">>
    /\ \E t \in tags, o \in tags :
        /\ t.user = last.user /\ o.user = last.user
        /\ Cardinality({r \in recipes : t.id \in r.tags}) = 2
        /\ \A r \in recipes : o.id \notin r.tags
        /\ last.data = <<t.id>>

\* C10 as claimed: a recipe create or update that fails after it started
\* to write leaves the rows and links as they were before the request.
C10_FailedWriteLeavesNoTrace ==
    [][((Handles("recipe_create") \/ Handles("recipe_update"))
            /\ last'.status = 500)
        => (recipes' = recipes /\ tags' = tags
                /\ ingredients' = ingredients)]_vars

\* both workers have finished their request without raising
BothDone == \A w \in Workers : workers[w].pc = "done"

\* both workers handle an update of recipe 1
BothUpdate == \A w \in Workers : workers[w].op = "update"

\* the names of the tags recipe 1 links
LinkedNames ==
    {t.name : t \in {o \in tags : \E r \in WithId(recipes, 1) : o.id \in r.tags}}

\* C11: when two concurrent updates of one recipe have both finished, the
\* recipe links every name of the update that cleared last and nothing but
\* names of the two lists; the link set need not be that of either list.
C11_ConcurrentUpdatesMixLinks ==
    (BothDone /\ BothUpdate) =>
        /\ LinkedNames \subseteq
            Range(workers[1].tag_list) \cup Range(workers[2].tag_list)
        /\ \E w \in Workers : Range(workers[w].tag_list) \subseteq LinkedNames

\* C11 witness: two updates with the lists [a] and [b] have both finished
\* and the recipe links both names: neither the set of A nor that of B.
C11_Witness ==
    /\ BothDone
    /\ BothUpdate
    /\ workers[1].tag_list = <<"a">>
    /\ workers[2].tag_list = <<"b">>
    /\ LinkedNames = {"a", "b"}

\* the calls of self.check that raised an operational error
Failed(calls) == {i \in 1..Len(calls) : calls[i] \in OperationalErrors}

\* C12: wait_for_db sleeps once after each check that raised an operational
\* error and never after a successful one; when it has returned, the last
\* of its n+1 checks succeeded, the n before it failed, it slept n times and
\* it returned 0.
C12_ChecksUntilSuccess ==
    /\ command.sleeps + (IF command.pc = "sleep" THEN 1 ELSE 0)
            = Cardinality(Failed(command.calls))
    /\ command.pc = "done" =>
        /\ command.calls # <<>>
        /\ command.calls[Len(command.calls)] = "ok"
        /\ Failed(command.calls) = 1..(Len(command.calls) - 1)
        /\ command.sleeps = Len(command.calls) - 1
        /\ command.result = <<0>>
    /\ command.pc # "done" =>
        /\ command.result = <<>>
        /\ \A i \in 1..Len(command.calls) : command.calls[i] # "ok"

\* C12 witness: two psycopg2 and three django operational errors, then a
\* success: six checks, five sleeps, result 0.
C12_Witness ==
    /\ command.pc = "done"
    /\ command.calls = <<"psycopg2.OperationalError",
                         "psycopg2.OperationalError",
                         "django.db.utils.OperationalError",
                         "django.db.utils.OperationalError",
                         "django.db.utils.OperationalError", "ok">>
    /\ command.sleeps = 5
    /\ command.result = <<0>>

\* C13: a request that carries no authenticated user, whatever operation
\* on recipes, tags or ingredients it asks for, is answered 401 and leaves
\* every row and link as it was.
C13_UnauthenticatedRejected ==
    [][(last.op = "none" /\ last'.op # "none" /\ last'.user = AnonymousUser)
        => /\ last'.status = 401
           /\ UNCHANGED <<recipes, tags, ingredients, next_id>>]_vars

\* C13 witness: a client with no token has asked for a recipe list with a
\* tags parameter that is no number, while recipes exist, and was answered
\* 401.
C13_Witness ==
    /\ last.op = "recipe_list"
    /\ last.user = AnonymousUser
    /\ last.query.tags = <<"x">>
    /\ last.status = 401
    /\ recipes # {}

\* the recipes, with the image of the recipe with an id set to a path
WithImage(rows, id, path) ==
    {IF r.id = id THEN [r EXCEPT !.image = path] ELSE r : r \in rows}

\* C14: an image upload to a recipe of the caller is answered 400 and
\* changes nothing when its payload is no image, and is answered 200 and
\* changes the image reference of that recipe only when it is one; an
\* upload to a recipe the caller does not own changes nothing.
C14_UploadValidatesImage ==
    [][Handles("upload_image") =>
        /\ UNCHANGED <<tags, ingredients>>
        /\ \A r \in recipes :
            (r.id = last'.id /\ r.user = last'.user) =>
                IF last'.body.image \in Opt(ImageFiles) \ {<<>>}
                THEN /\ last'.status = 200
                     /\ \E n \in WithId(recipes', r.id) :
                         /\ n.image # NoImage
                         /\ recipes' = WithImage(recipes, r.id, n.image)
                ELSE /\ last'.status = 400
                     /\ recipes' = recipes
        /\ (\A r \in recipes : r.id = last'.id => r.user # last'.user)
            => (last'.status = 404 /\ recipes' = recipes)]_vars

\* C14 witness: a string that is no image has been uploaded to a recipe
\* that has an image, and was answered 400.
C14_Witness ==
    /\ last.op = "upload_image"
    /\ last.body.image = <<"not-an-image">>
    /\ last.status = 400
    /\ \E r \in WithId(recipes, last.id) :
        r.user = last.user /\ r.image # NoImage

\* the name of the row of a table with an id
NameOf(rows, id) == (CHOOSE t \in rows : t.id = id).name

\* C15: a recipe list is in descending id order, and a tag or ingredient
\* list is in ascending name order, for every caller and every filter.
C15_ListsOrdered ==
    /\ (last.op = "recipe_list" /\ last.status = 200) =>
        \A i \in 1..Len(last.data), j \in 1..Len(last.data) :
            i < j => last.data[i] > last.data[j]
    /\ (last.op \in {"tags_list", "ingredients_list"} /\ last.status = 200) =>
        \A i \in 1..Len(last.data), j \in 1..Len(last.data) :
            i < j => NameRank(NameOf(Listed(last.op), last.data[i]))
                        <= NameRank(NameOf(Listed(last.op), last.data[j]))

\* C15 witness: a recipe list filtered by two tag ids has been answered
\* with two recipes, the later one first, one of which links both tags.
C15_Witness ==
    /\ last.op = "recipe_list"
    /\ last.status = 200
    /\ last.query.tags = <<"1", "2">>
    /\ last.data = <<2, 1>>
    /\ \E r \in recipes : r.tags = {1, 2}

\* every check so far raised an operational error
AllFailed == Failed(command.calls) = 1..Len(command.calls)

\* C16: while every check has failed with an operational error the command
\* is still in its loop, however many checks that took; and once the
\* database is up the command ends with "Database is ready", unless a
\* check raised an error that is not an operational one.
C16_WaitsUntilReady ==
    /\ [](AllFailed => command.pc \in {"start", "check", "sleep"})
    /\ ([](command.pc # "raised") =>
            <>(/\ command.pc = "done"
               /\ command.stdout[Len(command.stdout)] = "Database is ready"))

\* C16 witness: the database is still down after the most failed checks
\* the model follows, and the command is sleeping before its next check.
C16_Witness ==
    /\ ~database_up
    /\ Len(command.calls) = MaxFailedChecks
    /\ AllFailed
    /\ command.pc = "sleep"

\* the command has ended on an error that the check raised
Aborted(i) ==
    /\ i = Len(command.calls)
    /\ command.pc = "raised"
    /\ command.sleeps = i - 1
    /\ command.result = <<>>
    /\ \A k \in 1..Len(command.stdout) :
        command.stdout[k] # "Database is ready"

\* C17: a check that raises anything but an operational error is the last
\* one: the command ends on that error without another sleep, without a
\* result and without reporting the database ready.
C17_OtherErrorsAbort ==
    \A i \in 1..Len(command.calls) :
        command.calls[i] \notin OperationalErrors \cup {"ok"} => Aborted(i)

\* C17 witness: after two operational errors the check has raised another
\* error, and the command has ended having slept twice.
C17_Witness ==
    /\ command.pc = "raised"
    /\ Len(command.calls) = 3
    /\ command.calls[3] = "ImproperlyConfigured"
    /\ command.sleeps = 2

\* the names a nested list carries more than once
Repeated(list) ==
    {n \in Range(list) :
        Cardinality({i \in 1..Len(list) : list[i] = n}) > 1}

RECURSIVE WithoutRepeats(_)
\* a nested list with the later occurrences of every name removed
WithoutRepeats(list) ==
    IF list = <<>> THEN <<>>
    ELSE <<Head(list)>>
            \o WithoutRepeats(SelectSeq(Tail(list), LAMBDA n : n # Head(list)))

\* a body with the repeats of its nested lists removed
Deduplicated(body) ==
    [body EXCEPT
        !.tags = IF Present(@) THEN <<WithoutRepeats(@[1])>> ELSE @,
        !.ingredients = IF Present(@) THEN <<WithoutRepeats(@[1])>> ELSE @]

\* a repeated name of a nested list is resolved once for the recipe: at
\* most one row of that name is created and exactly one is linked
ResolvedOnce(rel, before, after, recipes_after, user, name, recipe_id) ==
    /\ Cardinality(Named(after, user, name) \ before) <= 1
    /\ \E r \in WithId(recipes_after, recipe_id) :
        Cardinality({t \in Named(after, user, name) : t.id \in r[rel]}) = 1

\* every repeated name of the two nested lists of the request being
\* answered is resolved once
RepeatsResolvedOnce ==
    /\ \A n \in Repeated(NestedList(last'.body.tags)) :
        ResolvedOnce("tags", tags, tags', recipes', last'.user, n, last'.id)
    /\ \A n \in Repeated(NestedList(last'.body.ingredients)) :
        ResolvedOnce("ingredients", ingredients, ingredients', recipes',
                     last'.user, n, last'.id)

\* the request being answered leaves what out leaves
Leaves(out) ==
    /\ recipes' = out.db.recipes
    /\ tags' = out.db.tags
    /\ ingredients' = out.db.ingredients
    /\ (last'.status = 500) = out.raised

\* the request being answered leaves what the same request without the
\* repeats in its nested lists would leave
AsWithoutRepeats ==
    /\ Handles("recipe_create") =>
        Leaves(RecipeDetailSerializer_create(Database,
                   perform_create(Deduplicated(last'.body), last'.user),
                   last'.user))
    /\ \A r \in recipes : HandlesOwnUpdate(r) =>
        Leaves(RecipeDetailSerializer_update(Database, r.id,
                   validated_data(Deduplicated(last'.body)), last'.user))

\* a create, or an update of an own recipe, is being answered
HandlesOwnWrite ==
    \/ Handles("recipe_create")
    \/ \E r \in recipes : HandlesOwnUpdate(r)

\* C18 as claimed: when a recipe create or update names a tag or an
\* ingredient more than once, at most one row of that name is created,
\* the recipe links exactly one row of that name, and the request leaves
\* what it would leave with the repeats removed.
C18_RepeatedNameResolvedOnce ==
    [][HandlesOwnWrite => (RepeatsResolvedOnce /\ AsWithoutRepeats)]_vars

\* C18 where the sender's names are unique when the request arrives
C18_UniqueNamesRepeated ==
    [][(HandlesOwnWrite /\ UniqueNames(tags) /\ UniqueNames(ingredients))
        => (RepeatsResolvedOnce /\ AsWithoutRepeats)]_vars

\* C18 in every state: a request leaves what it would leave with the
\* repeats removed, and creates at most one row for a repeated name
C18_RepeatsChangeNothing ==
    [][HandlesOwnWrite =>
        /\ AsWithoutRepeats
        /\ \A n \in Repeated(NestedList(last'.body.tags)) :
            Cardinality(Named(tags', last'.user, n) \ tags) <= 1
        /\ \A n \in Repeated(NestedList(last'.body.ingredients)) :
            Cardinality(Named(ingredients', last'.user, n) \ ingredients) <= 1]_vars

\* C19 as claimed: no user owns two tags of the same name, nor two
\* ingredients of the same name, in any state that requests handled one
\* after the other lead to.
C19_NoDuplicateNames == UniqueNames(tags) /\ UniqueNames(ingredients)

\* both workers have finished their request, raising or not
BothFinished == \A w \in Workers : workers[w].pc \in {"done", "raised"}

\* the user owned a tag of this name when the two requests arrived (tag 1
\* is the only tag there can have been)
OwnedAtStart(name) == \E t \in tags : t.id = 1 /\ t.name = name

\* the recipe a worker wrote links a tag of the user with this name
LinksNamed(w, name) ==
    \E r \in WithId(recipes, workers[w].recipe_id) :
        \E t \in Named(tags, workers[w].user, name) : t.id \in r.tags

\* C20 as claimed: once two concurrent recipe writes of one user have
\* finished, the user owns exactly one tag of every name that both named
\* and the user did not own before, and both recipes link it.
C20_ConcurrentGetOrCreateOnce ==
    BothFinished =>
        \A n \in Range(workers[1].tag_list) \cap Range(workers[2].tag_list) :
            ~OwnedAtStart(n) =>
                /\ Cardinality(Named(tags, "user", n)) = 1
                /\ \A w \in Workers : LinksNamed(w, n)

\* the rows of a table that a user owns
RowsOf(rows, user) == {t \in rows : t.user = user}

\* the recipes that link a row of a table, the row given by its id
LinkedBy(rel, rows, id) == {r.id : r \in {o \in rows : id \in o[rel]}}

\* the write operations of the API
WriteOps ==
    {"recipe_create", "recipe_update", "recipe_destroy", "upload_image",
     "tags_update", "tags_destroy", "ingredients_update",
     "ingredients_destroy"}

\* C21: a write operation sent by a user leaves every recipe, tag and
\* ingredient of every other user as it was, links included, and leaves
\* every tag and ingredient of another user linked by the same recipes as
\* before.
C21_WritesLeaveOtherUsersRows ==
    [][(\E op \in WriteOps : Handles(op)) =>
        \A v \in Users \ {last'.user} :
            /\ RowsOf(recipes', v) = RowsOf(recipes, v)
            /\ RowsOf(tags', v) = RowsOf(tags, v)
            /\ RowsOf(ingredients', v) = RowsOf(ingredients, v)
            /\ \A t \in RowsOf(tags, v) :
                LinkedBy("tags", recipes', t.id)
                    = LinkedBy("tags", recipes, t.id)
            /\ \A t \in RowsOf(ingredients, v) :
                LinkedBy("ingredients", recipes', t.id)
                    = LinkedBy("ingredients", recipes, t.id)]_vars

\* C21 witness: a user has asked to delete a tag of another user by its
\* id, a tag whose name the asking user owns as well, and was answered 404
\* while the other user's recipe links that tag still.
C21_Witness ==
    /\ last.op = "tags_destroy"
    /\ last.status = 404
    /\ \E t \in tags, o \in tags, r \in recipes :
        /\ t.id = last.id
        /\ t.user # last.user
        /\ o.user = last.user
        /\ o.name = t.name
        /\ r.user = t.user
        /\ t.id \in r.tags

====
